---- MODULE Spec2Model ----
(***************************************************************************)
(* Model of egg's Runner trait (default step / run / run_expr) and of the  *)
(* SimpleRunner scheduler (iteration limit, node limit, saturation check,  *)
(* exponential rule backoff), src/src/run.rs.                              *)
(*                                                                         *)
(* The e-graph and the rewrites are external collaborators: the model     *)
(* keeps the e-graph's total_size and lets every Rewrite::search return   *)
(* any match list of MatchChoices and every Rewrite::apply return any     *)
(* count and grow the e-graph by any amount up to MaxGrow.                 *)
(* usize arithmetic is modelled on the naturals: with ban_length = 5 the  *)
(* shifts and sums of search_rewrite stay far below 2^64 for every        *)
(* iteration count the bounds reach.                                       *)
(***************************************************************************)
EXTENDS Integers, Sequences, FiniteSets, TLC

\* ------------------------------------------------------------------ bounds
MaxIterLimit == 7
MaxNodeLimit == 1
MaxMatchLimit == 1
MaxInitSize == 1
MaxGrow == 1
MaxRuns == 2
\* a run of two or more rules, or on a used runner, has at most this many
\* steps left before the iteration limit
MaxPairSteps == 2
MaxTripleSteps == 1

\* ------------------------------------------------------- program constants
\* SimpleRunner::default(): ban_length has no builder, it is always 5
ban_length == 5

\* ------------------------------------------------------------ input domains
Names == {"a", "b"}

\* rule lists handed to run / run_expr (names may repeat)
RuleLists == {<<>>, <<"a">>, <<"a", "b">>, <<"a", "a">>, <<"a", "a", "a">>}

\* what Rewrite::search may return: a Vec<SearchMatches>, each entry given
\* by the length of its substs
MatchChoices == {<<>>, <<0>>, <<1>>, <<1, 2>>}

IterLimits == {0, 1, MaxPairSteps, MaxIterLimit}
NodeLimits == {MaxNodeLimit - 1, MaxNodeLimit}
MatchLimits == 0..MaxMatchLimit
InitSizes == 1..MaxInitSize

\* ------------------------------------------------------------------ values
Ok == [tag |-> "Ok", n |-> 0]
Saturated == [tag |-> "Saturated", n |-> 0]
IterationLimit(n) == [tag |-> "IterationLimit", n |-> n]
NodeLimit(n) == [tag |-> "NodeLimit", n |-> n]

EmptyMap == [x \in {} |-> 0]

RuleStats(ta, bu, tb) == [times_applied |-> ta, banned_until |-> bu, times_banned |-> tb]

\* the result of one apply_rewrite call, as Runner::step sees it
Applied(idx, name, ms, count) == [idx |-> idx, name |-> name, ms |-> ms, count |-> count]

NoCalls == [pre |-> 0, search |-> 0, real |-> 0, apply |-> 0, during |-> 0,
            rebuild |-> 0, post |-> 0]

VARIABLES
    iter_limit, node_limit, initial_match_limit,   \* SimpleRunner configuration
    i, stats,                                      \* SimpleRunner scheduler state
    rules, size,                                   \* arguments of run: rule list, e-graph size
    pc, k, matches, applied,                       \* position in run / step and step locals
    iterations, stop_reason, report,               \* run's result and run_expr's RunReport
    runs, calls, hook_ret, searched, applies,      \* observations (history only)
    matched_all, matched_none

vars == <<iter_limit, node_limit, initial_match_limit, i, stats, rules, size,
          pc, k, matches, applied, iterations, stop_reason, report,
          runs, calls, hook_ret, searched, applies, matched_all, matched_none>>

config == <<iter_limit, node_limit, initial_match_limit>>

\* --------------------------------------------------------- pure functions
RECURSIVE Sum(_)
\* ms.iter().map(|m| m.substs.len()).sum()
Sum(ms) == IF ms = <<>> THEN 0 ELSE Head(ms) + Sum(Tail(ms))

\* variant: the shift amount taken after times_banned was incremented
Shl_after(x, n) == x * (2 ^ (n + 1))

\* x << n on usize (no bit is shifted out within the bounds)
Shl(x, n) == x * (2 ^ n)

\* variant: the limit test is strict
pre_step_strict(it, limit) == IF it > limit THEN IterationLimit(it) ELSE Ok

\* SimpleRunner::pre_step
pre_step(it, limit) == IF it >= limit THEN IterationLimit(it) ELSE Ok

\* variant: a size equal to the limit trips
during_step_ge(sz, limit) == IF sz >= limit THEN NodeLimit(sz) ELSE Ok

\* SimpleRunner::during_step
during_step(sz, limit) == IF sz > limit THEN NodeLimit(sz) ELSE Ok

\* variant: bans are looked at after the counter was incremented
is_banned_next(s, it) == s.banned_until > it + 1

\* variant: a ban ending now still counts
is_banned_ge(s, it) == s.banned_until >= it

\* the closure is_banned of post_step
is_banned(s, it) == s.banned_until > it

\* variant: the counter is left alone
post_step_keep(st, it, iteration) ==
    LET any_bans == \E r \in DOMAIN st : is_banned(st[r], it)
    IN  [i |-> it,
         ret |-> IF ~any_bans /\ DOMAIN iteration.applied = {} THEN Saturated ELSE Ok]

\* variant: the counter is incremented only when the run goes on
post_step_late(st, it, iteration) ==
    LET any_bans == \E r \in DOMAIN st : is_banned(st[r], it)
        sat == ~any_bans /\ DOMAIN iteration.applied = {}
    IN  [i |-> IF sat THEN it ELSE it + 1,
         ret |-> IF sat THEN Saturated ELSE Ok]

\* variant: the counter is incremented before the bans are looked at
post_step_after(st, it, iteration) ==
    LET any_bans == \E r \in DOMAIN st : is_banned(st[r], it + 1)
    IN  [i |-> it + 1,
         ret |-> IF ~any_bans /\ DOMAIN iteration.applied = {} THEN Saturated ELSE Ok]

\* SimpleRunner::post_step: the new counter and the result
post_step(st, it, iteration) ==
    LET any_bans == \E r \in DOMAIN st : is_banned(st[r], it)
    IN  [i |-> it + 1,
         ret |-> IF ~any_bans /\ DOMAIN iteration.applied = {} THEN Saturated ELSE Ok]

\* variant: a successful search clears the ban window
applied_stats_reset(limit) ==
    RuleStats(limit.times_applied + 1, 0, limit.times_banned)

\* search_rewrite, total_len <= threshold: limit.times_applied += 1
applied_stats(limit) ==
    RuleStats(limit.times_applied + 1, limit.banned_until, limit.times_banned)

\* variant: a banned search is counted as an application too
banned_stats_counted(limit, it, len) ==
    RuleStats(limit.times_applied + 1, it + len, limit.times_banned + 1)

\* search_rewrite, total_len > threshold: times_banned += 1, banned_until = i + ban_length
banned_stats(limit, it, len) ==
    RuleStats(limit.times_applied, it + len, limit.times_banned + 1)

\* variant: a skipped search is counted as an application
skip_stats_counted(limit) ==
    RuleStats(limit.times_applied + 1, limit.banned_until, limit.times_banned)

\* search_rewrite, self.i < limit.banned_until: return vec![], limit untouched
skip_stats(limit) == limit

\* variant: the first search is counted as an application
fresh_stats_counted == RuleStats(1, 0, 0)

\* search_rewrite, name not yet in stats: the RuleStats inserted
fresh_stats == RuleStats(0, 0, 0)

\* variant: a total equal to the threshold bans
over_threshold_ge(total_len, threshold) == total_len >= threshold

\* search_rewrite: total_len > threshold
over_threshold(total_len, threshold) == total_len > threshold

\* what search_rewrite did in one call: the rule's name, which branch ran,
\* what rewrite.search found (<<>> when it was not called), what was
\* returned, the numbers compared
Obs(name, outcome, found, ret, lim, threshold, ban, it, tb) ==
    [name |-> name, outcome |-> outcome, found |-> found, ret |-> ret,
     total |-> Sum(found), limit |-> lim, threshold |-> threshold,
     ban |-> ban, at |-> it, tb |-> tb]

\* SimpleRunner::search_rewrite; found is what rewrite.search(egraph) returns
\* when it is called
search_rewrite(st, it, lim, name, found) ==
    IF name \in DOMAIN st
    THEN LET limit == st[name] IN
         IF it < limit.banned_until
         THEN [stats |-> [st EXCEPT ![name] = skip_stats(limit)], matches |-> <<>>,
               obs |-> Obs(name, "skipped", <<>>, <<>>, lim, 0, 0, it, limit.times_banned)]
         ELSE LET total_len == Sum(found)
                  threshold == Shl(lim, limit.times_banned)
              IN  IF over_threshold(total_len, threshold)
                  THEN LET len == Shl(ban_length, limit.times_banned)
                       IN  [stats |-> [st EXCEPT ![name] = banned_stats(limit, it, len)],
                            matches |-> <<>>,
                            obs |-> Obs(name, "banned", found, <<>>, lim, threshold, len, it,
                                        limit.times_banned)]
                  ELSE [stats |-> [st EXCEPT ![name] = applied_stats(limit)],
                        matches |-> found,
                        obs |-> Obs(name, "applied", found, found, lim, threshold, 0, it,
                                    limit.times_banned)]
    ELSE [stats |-> st @@ (name :> fresh_stats),
          matches |-> found,
          obs |-> Obs(name, "first", found, found, lim, 0, 0, it, 0)]

\* variant: the match lists are paired with the rules back to front
matches_for_rev(ms, idx) == ms[Len(ms) + 1 - idx]

\* step: rules.iter().zip(matches): the matches handed to the k-th rule's apply
matches_for(ms, idx) == ms[idx]

\* variant: every apply_rewrite call is recorded, whatever it returned
record_applied_always(ap, name, actually_matched) ==
    IF name \in DOMAIN ap
    THEN [ap EXCEPT ![name] = @ + 1]
    ELSE ap @@ (name :> 1)

\* variant: the entry tallies the substitutions apply_rewrite reports
record_applied_tally(ap, name, actually_matched) ==
    IF actually_matched > 0
    THEN IF name \in DOMAIN ap
         THEN [ap EXCEPT ![name] = @ + actually_matched]
         ELSE ap @@ (name :> actually_matched)
    ELSE ap

\* the applied-map update of Runner::step
record_applied(ap, name, actually_matched) ==
    IF actually_matched > 0
    THEN IF name \in DOMAIN ap
         THEN [ap EXCEPT ![name] = @ + 1]
         ELSE ap @@ (name :> 1)
    ELSE ap

\* the Iteration returned by Runner::step (sizes and timings left out)
Iteration(ap) == [applied |-> ap]

\* ------------------------------------------------------------------- Init
\* SimpleRunner::default() followed by the builders with_iter_limit,
\* with_node_limit, with_initial_match_limit
Init ==
    /\ iter_limit \in IterLimits
    /\ node_limit \in NodeLimits
    /\ initial_match_limit \in MatchLimits
    /\ i = 0
    /\ stats = EmptyMap
    /\ rules = <<>>
    /\ size = 0
    /\ pc = "idle"
    /\ k = 0
    /\ matches = <<>>
    /\ applied = EmptyMap
    /\ iterations = <<>>
    /\ stop_reason = Ok
    /\ report = [iterations |-> <<>>, stop_reason |-> Ok]
    /\ runs = 0
    /\ calls = NoCalls
    /\ hook_ret = Ok
    /\ searched = <<>>
    /\ applies = <<>>
    /\ matched_all = TRUE
    /\ matched_none = TRUE

\* ---------------------------------------------------------------- actions
\* variant: the record of the step is pushed only after post_step let the run go on
Stop_unpushed(err, its) ==
    /\ pc' = "done"
    /\ stop_reason' = err
    /\ report' = [iterations |-> IF err = Saturated THEN SubSeq(its, 1, Len(its) - 1) ELSE its,
                  stop_reason |-> err]

\* variant: the step cut short by the node limit is reported as a record
Stop_partial(err, its) ==
    /\ pc' = "done"
    /\ stop_reason' = err
    /\ report' = [iterations |-> IF err.tag = "NodeLimit"
                                  THEN Append(its, Iteration(applied)) ELSE its,
                  stop_reason |-> err]

\* Runner::run returns (iterations, stop_reason) once a hook returned an
\* error; Runner::run_expr stores both in the RunReport
Stop(err, its) ==
    /\ pc' = "done"
    /\ stop_reason' = err
    /\ report' = [iterations |-> its, stop_reason |-> err]

\* variant: a run starts from a cleared counter and cleared stats
RunExpr_fresh ==
    /\ pc \in {"idle", "done"}
    /\ runs < MaxRuns
    /\ rules' \in RuleLists
    /\ (Len(rules') <= 1 /\ runs = 0) \/ iter_limit <= i + MaxPairSteps
    /\ Len(rules') <= 2 \/ (runs = 0 /\ iter_limit <= MaxTripleSteps)
    /\ size' \in InitSizes
    /\ iterations' = <<>>
    /\ pc' = "pre_step"
    /\ k' = 0
    /\ matches' = <<>>
    /\ applied' = EmptyMap
    /\ stop_reason' = Ok
    /\ report' = [iterations |-> <<>>, stop_reason |-> Ok]
    /\ runs' = runs + 1
    /\ calls' = NoCalls
    /\ hook_ret' = Ok
    /\ searched' = <<>>
    /\ applies' = <<>>
    /\ matched_all' = TRUE
    /\ matched_none' = TRUE
    /\ i' = 0
    /\ stats' = EmptyMap
    /\ UNCHANGED config

\* Runner::run_expr / Runner::run entered: a new e-graph, an empty record list
RunExpr ==
    /\ pc \in {"idle", "done"}
    /\ runs < MaxRuns
    /\ rules' \in RuleLists
    /\ (Len(rules') <= 1 /\ runs = 0) \/ iter_limit <= i + MaxPairSteps
    /\ Len(rules') <= 2 \/ (runs = 0 /\ iter_limit <= MaxTripleSteps)
    /\ size' \in InitSizes
    /\ iterations' = <<>>
    /\ pc' = "pre_step"
    /\ k' = 0
    /\ matches' = <<>>
    /\ applied' = EmptyMap
    /\ stop_reason' = Ok
    /\ report' = [iterations |-> <<>>, stop_reason |-> Ok]
    /\ runs' = runs + 1
    /\ calls' = NoCalls
    /\ hook_ret' = Ok
    /\ searched' = <<>>
    /\ applies' = <<>>
    /\ matched_all' = TRUE
    /\ matched_none' = TRUE
    /\ UNCHANGED <<config, i, stats>>

\* run: self.pre_step(egraph)?, then the head of step
RunPreStep ==
    /\ pc = "pre_step"
    /\ LET r == pre_step(i, iter_limit) IN
        /\ hook_ret' = r
        /\ calls' = [calls EXCEPT !.pre = @ + 1]
        /\ IF r # Ok
           THEN /\ Stop(r, iterations)
                /\ UNCHANGED <<k, matches, applied, searched, applies>>
           ELSE /\ pc' = IF Len(rules) = 0 THEN "rebuild" ELSE "search"
                /\ k' = 1
                /\ matches' = <<>>
                /\ applied' = EmptyMap
                /\ searched' = <<>>
                /\ applies' = <<>>
                /\ UNCHANGED <<stop_reason, report>>
    /\ UNCHANGED <<config, i, stats, rules, size, iterations, runs,
                   matched_all, matched_none>>

\* step: one turn of the search loop: search_rewrite, push, during_step
StepSearch ==
    /\ pc = "search"
    /\ \E found \in MatchChoices :
        LET res == search_rewrite(stats, i, initial_match_limit, rules[k], found)
            r == during_step(size, node_limit)
        IN  /\ stats' = res.stats
            /\ matches' = Append(matches, res.matches)
            /\ searched' = Append(searched, res.obs)
            /\ matched_all' = (matched_all /\ (res.obs.outcome = "skipped" \/ Sum(found) > 0))
            /\ matched_none' = (matched_none /\ (res.obs.outcome = "skipped" \/ Sum(found) = 0))
            /\ hook_ret' = r
            /\ calls' = [calls EXCEPT !.search = @ + 1, !.during = @ + 1,
                            !.real = @ + (IF res.obs.outcome = "skipped" THEN 0 ELSE 1)]
            /\ IF r # Ok
               THEN /\ Stop(r, iterations)
                    /\ UNCHANGED k
               ELSE /\ pc' = IF k = Len(rules) THEN "apply" ELSE "search"
                    /\ k' = IF k = Len(rules) THEN 1 ELSE k + 1
                    /\ UNCHANGED <<stop_reason, report>>
    /\ UNCHANGED <<config, i, rules, size, applied, iterations, runs, applies>>

\* variant: during_step is also called for a rule that had no match
StepApply_checked ==
    /\ pc = "apply"
    /\ LET ms == matches_for(matches, k)
           total_matches == Sum(ms)
           next == IF k = Len(rules) THEN "rebuild" ELSE "apply"
       IN  IF total_matches = 0
           THEN /\ pc' = next
                /\ k' = k + 1
                /\ hook_ret' = Ok
                /\ calls' = [calls EXCEPT !.during = @ + 1]
                /\ UNCHANGED <<size, applied, stop_reason, report,
                               matched_all, applies>>
           ELSE \E actually_matched \in {0, total_matches}, grow \in 0..MaxGrow :
                LET r == during_step(size + grow, node_limit) IN
                /\ size' = size + grow
                /\ applied' = record_applied(applied, rules[k], actually_matched)
                /\ applies' = Append(applies, Applied(k, rules[k], ms, actually_matched))
                /\ matched_all' = (matched_all /\ actually_matched > 0)
                /\ hook_ret' = r
                /\ calls' = [calls EXCEPT !.apply = @ + 1, !.during = @ + 1]
                /\ IF r # Ok
                   THEN /\ Stop(r, iterations)
                        /\ UNCHANGED k
                   ELSE /\ pc' = next
                        /\ k' = k + 1
                        /\ UNCHANGED <<stop_reason, report>>
    /\ UNCHANGED <<config, i, stats, rules, matches, iterations, runs,
                   searched, matched_none>>

\* step: one turn of the apply loop
StepApply ==
    /\ pc = "apply"
    /\ LET ms == matches_for(matches, k)
           total_matches == Sum(ms)
           next == IF k = Len(rules) THEN "rebuild" ELSE "apply"
       IN  IF total_matches = 0
           THEN /\ pc' = next
                /\ k' = k + 1
                /\ UNCHANGED <<size, applied, hook_ret, calls, stop_reason, report,
                               matched_all, applies>>
           ELSE \E actually_matched \in {0, total_matches}, grow \in 0..MaxGrow :
                LET r == during_step(size + grow, node_limit) IN
                /\ size' = size + grow
                /\ applied' = record_applied(applied, rules[k], actually_matched)
                /\ applies' = Append(applies, Applied(k, rules[k], ms, actually_matched))
                /\ matched_all' = (matched_all /\ actually_matched > 0)
                /\ hook_ret' = r
                /\ calls' = [calls EXCEPT !.apply = @ + 1, !.during = @ + 1]
                /\ IF r # Ok
                   THEN /\ Stop(r, iterations)
                        /\ UNCHANGED k
                   ELSE /\ pc' = next
                        /\ k' = k + 1
                        /\ UNCHANGED <<stop_reason, report>>
    /\ UNCHANGED <<config, i, stats, rules, matches, iterations, runs,
                   searched, matched_none>>

\* step: egraph.rebuild() and the Iteration; run: iterations.push
StepRebuild ==
    /\ pc = "rebuild"
    /\ iterations' = Append(iterations, Iteration(applied))
    /\ calls' = [calls EXCEPT !.rebuild = @ + 1]
    /\ pc' = "post_step"
    /\ k' = 0
    /\ matches' = <<>>
    /\ applied' = EmptyMap
    /\ UNCHANGED <<config, i, stats, rules, size,
                   stop_reason, report, runs, hook_ret, searched, applies,
                   matched_all, matched_none>>

\* run: self.post_step(iterations.last().unwrap(), egraph)?
\* (the logs of the step are dropped when the loop goes on)
RunPostStep ==
    /\ pc = "post_step"
    /\ LET res == post_step(stats, i, iterations[Len(iterations)]) IN
        /\ i' = res.i
        /\ hook_ret' = res.ret
        /\ calls' = [calls EXCEPT !.post = @ + 1]
        /\ IF res.ret # Ok
           THEN /\ Stop(res.ret, iterations)
                /\ UNCHANGED <<searched, applies>>
           ELSE /\ pc' = "pre_step"
                /\ searched' = <<>>
                /\ applies' = <<>>
                /\ UNCHANGED <<stop_reason, report>>
    /\ UNCHANGED <<config, stats, rules, size, k, matches, applied,
                   iterations, runs, matched_all, matched_none>>

RunStep == RunPreStep \/ StepSearch \/ StepApply \/ StepRebuild \/ RunPostStep

Next ==
    \/ RunExpr
    \/ RunPreStep
    \/ StepSearch
    \/ StepApply
    \/ StepRebuild
    \/ RunPostStep

Spec == Init /\ [][Next]_vars


\* the steps of a run, which the run loop always takes
LiveSpec == Init /\ [][Next]_vars /\ WF_vars(RunStep)

\* ------------------------------------------------------------- properties
RECURSIVE Pow2(_)
Pow2(n) == IF n = 0 THEN 1 ELSE 2 * Pow2(n - 1)

Last(s) == s[Len(s)]

Running == pc \in {"pre_step", "search", "apply", "rebuild", "post_step"}

\* C1: a run stops with Saturated only after a completed step whose applied
\* mapping is empty and at whose iteration index no rule of the stats is
\* banned (index < banned_until); no rule was skipped as banned or newly
\* banned in that final step.
C1_SaturatedOnlyWhenStable ==
    (pc = "done" /\ stop_reason = Saturated) =>
        /\ Len(iterations) >= 1
        /\ calls.post = Len(iterations)
        /\ DOMAIN Last(iterations).applied = {}
        /\ \A r \in DOMAIN stats : ~((i - 1) < stats[r].banned_until)
        /\ \A n \in 1..Len(searched) :
              /\ searched[n].at = i - 1
              /\ searched[n].outcome \notin {"skipped", "banned"}

\* a run saturates after a rule's ban has been served
C1_Witness ==
    /\ pc = "done"
    /\ stop_reason = Saturated
    /\ \E r \in DOMAIN stats : stats[r].times_banned >= 1

C4_Terminates ==
    /\ [](Running => <>(pc = "done"))
    /\ [](Len(iterations) <= iter_limit /\ calls.rebuild <= iter_limit)

\* a run that took all the steps of the largest limit
C4_Witness ==
    /\ pc = "done"
    /\ iter_limit = MaxIterLimit
    /\ Len(iterations) = iter_limit

\* C5: at a rule's k-th ban the threshold compared is
\* initial_match_limit * 2^(k-1), the ban lasts ban_length * 2^(k-1),
\* times_banned goes from k-1 to k and banned_until becomes
\* i + ban_length * 2^(k-1).
C5_Doubling ==
    [][\A r \in DOMAIN stats :
          (stats'[r].times_banned # stats[r].times_banned
             \/ (Len(searched') = Len(searched) + 1 /\ Last(searched').name = r
                   /\ Last(searched').outcome = "banned")) =>
            LET kk == stats[r].times_banned + 1
                o == Last(searched')
            IN  /\ stats'[r].times_banned = kk
                /\ stats'[r].banned_until = i + ban_length * Pow2(kk - 1)
                /\ o.name = r
                /\ o.outcome = "banned"
                /\ o.threshold = initial_match_limit * Pow2(kk - 1)
                /\ o.ban = ban_length * Pow2(kk - 1)
                /\ o.total > o.threshold]_vars

\* a rule's second ban, with a doubled, non-zero threshold
C5_Witness ==
    /\ searched # <<>>
    /\ Last(searched).outcome = "banned"
    /\ Last(searched).tb = 1
    /\ Last(searched).threshold = 2

\* C6: every search that yields more matches than the rewrite's current
\* match limit bans the rewrite, the first search of a rewrite included.
C6_EverySearchChecked ==
    \A n \in 1..Len(searched) :
        (searched[n].outcome # "skipped"
            /\ searched[n].total > searched[n].limit * Pow2(searched[n].tb)) =>
        searched[n].outcome = "banned"

\* C7 as stated: with no rule matching, a fresh run ends after exactly one
\* step with Saturated and an empty applied mapping, whatever iter_limit,
\* node_limit and the rule list are.
C7_OneStepUnconditional ==
    (pc = "done" /\ runs = 1 /\ matched_none) =>
        /\ stop_reason = Saturated
        /\ Len(report.iterations) = 1
        /\ DOMAIN report.iterations[1].applied = {}

\* C7 amended: with no rule matching, iter_limit >= 1, and an initial graph
\* no larger than node_limit (or no rule at all), a fresh run ends after
\* exactly one step with Saturated and an empty applied mapping.
C7_OneStep ==
    (pc = "done" /\ runs = 1 /\ matched_none /\ iter_limit >= 1
        /\ (size <= node_limit \/ Len(rules) = 0)) =>
        /\ stop_reason = Saturated
        /\ Len(report.iterations) = 1
        /\ DOMAIN report.iterations[1].applied = {}
        /\ calls.post = 1
        /\ i = 1

\* two rules that were searched and found nothing, then Saturated
C7_Witness ==
    /\ pc = "done"
    /\ runs = 1
    /\ matched_none
    /\ Len(rules) = 2
    /\ calls.real = 2
    /\ stop_reason = Saturated

\* C8: the iteration counter changes only in post_step, which adds exactly
\* 1 whatever it returns; no other operation changes it.
C8_Counter ==
    [][/\ (pc = "post_step" => i' = i + 1)
       /\ (pc # "post_step" => i' = i)]_vars

\* post_step returned Saturated in the third step and still counted it
C8_Witness ==
    /\ pc = "done"
    /\ stop_reason = Saturated
    /\ runs = 1
    /\ calls.post = 3
    /\ i = 3

\* C9: a rule's banned_until never decreases, and its stats are never
\* removed.
C9_BannedUntilMonotone ==
    [][\A r \in DOMAIN stats :
          /\ r \in DOMAIN stats'
          /\ stats'[r].banned_until >= stats[r].banned_until]_vars

\* a rule searched successfully after its ban ran out
C9_Witness ==
    /\ searched # <<>>
    /\ Last(searched).outcome = "applied"
    /\ Last(searched).tb >= 1
    /\ stats[Last(searched).name].banned_until = Last(searched).at

\* C10: the loop exits only on a hook's stop value, which is the stop
\* reason returned and reported; nothing runs after it; the record of a
\* step stopped by post_step is in the returned list.
C10_StopTerminal ==
    /\ [](/\ Running => (hook_ret = Ok /\ stop_reason = Ok)
          /\ pc = "done" =>
                /\ hook_ret # Ok
                /\ stop_reason = hook_ret
                /\ report = [iterations |-> iterations, stop_reason |-> hook_ret]
          /\ (pc = "done" /\ stop_reason = Saturated) =>
                /\ Len(report.iterations) = calls.rebuild
                /\ Len(report.iterations) = calls.post)
    /\ [][pc = "done" =>
            \/ runs' = runs + 1
            \/ UNCHANGED vars]_vars

\* a run stopped by post_step in its second step, both records reported
C10_Witness ==
    /\ pc = "done"
    /\ stop_reason = Saturated
    /\ hook_ret = Saturated
    /\ Len(report.iterations) = 2
    /\ DOMAIN report.iterations[1].applied # {}

\* C11: whenever a run stops with NodeLimit(n), n is the configured
\* node_limit.
C11_PayloadIsLimit ==
    (pc = "done" /\ stop_reason.tag = "NodeLimit") => stop_reason.n = node_limit

NeverBanned(r) ==
    r \in DOMAIN stats => (stats[r].times_banned = 0 /\ stats[r].banned_until = 0)

C13_DuringStep ==
    /\ [](/\ calls.during = calls.search + calls.apply
          /\ pc \in {"search", "apply", "rebuild"} => calls.pre = calls.post + 1)
    /\ [][/\ (calls'.search = calls.search + 1 \/ calls'.apply = calls.apply + 1) =>
                /\ calls'.search + calls'.apply = calls.search + calls.apply + 1
                /\ calls'.during = calls.during + 1
                /\ hook_ret' = during_step(size', node_limit)
                /\ hook_ret' # Ok => (pc' = "done" /\ stop_reason' = hook_ret'
                                        /\ calls'.rebuild = calls.rebuild)
          /\ pc \in {"search", "apply", "rebuild"} =>
                (calls'.pre = calls.pre /\ calls'.post = calls.post)
          /\ pc = "done" => (calls' = calls \/ runs' = runs + 1)]_vars

\* the first apply of a step of two rules tripped the node limit: two
\* searches, one apply, three checks, and the second rule never applied
C13_Witness ==
    /\ pc = "done"
    /\ stop_reason.tag = "NodeLimit"
    /\ Len(rules) = 2
    /\ calls.search = 2
    /\ calls.apply = 1
    /\ calls.during = 3
    /\ Sum(matches[2]) > 0

\* C14: a step aborted by during_step leaves no record, keeps the graph as
\* the applies of that step left it, runs no rebuild and no post_step, and
\* so keeps the counter and the stats as the step's searches left them.
C14_AbortedStep ==
    /\ []((pc = "done" /\ stop_reason.tag = "NodeLimit") =>
            /\ report.iterations = iterations
            /\ Len(iterations) = calls.rebuild
            /\ calls.rebuild = calls.post
            /\ calls.pre = calls.post + 1
            /\ size = stop_reason.n)
    /\ [][(pc \in {"search", "apply"} /\ pc' = "done") =>
            /\ iterations' = iterations
            /\ i' = i
            /\ calls'.rebuild = calls.rebuild
            /\ calls'.post = calls.post
            /\ size' >= size
            /\ pc = "apply" => (stats' = stats /\ size' > node_limit)
            /\ pc = "search" =>
                  LET o == Last(searched') IN
                  /\ size' = size
                  /\ o.name \in DOMAIN stats'
                  /\ o.outcome = "banned" =>
                        stats'[o.name].times_banned = stats[o.name].times_banned + 1
                  /\ o.outcome = "applied" =>
                        stats'[o.name].times_applied = stats[o.name].times_applied + 1]_vars

\* the second apply of the first step tripped the node limit after the
\* first apply had added something: nothing is reported
C14_Witness ==
    /\ pc = "done"
    /\ stop_reason.tag = "NodeLimit"
    /\ Len(applies) = 2
    /\ applies[1].count > 0
    /\ DOMAIN applied # {}
    /\ report.iterations = <<>>
    /\ i = 0

\* C15: a step searches the rules in list order and finishes all searches
\* before its first apply; it then applies in the same order, each rule
\* with exactly the matches its own search returned in this step; rebuild
\* runs exactly once per completed step, after the last apply and before
\* the record is returned.
C15_TwoPhase ==
    /\ [](/\ \A n \in 1..Len(searched) : searched[n].name = rules[n]
          /\ pc = "search" => (Len(searched) = k - 1 /\ applies = <<>>)
          /\ applies # <<>> => Len(searched) = Len(rules)
          /\ \A j \in 1..Len(applies) :
                /\ applies[j].idx \in 1..Len(searched)
                /\ applies[j].name = rules[applies[j].idx]
                /\ applies[j].ms = searched[applies[j].idx].ret
                /\ j > 1 => applies[j - 1].idx < applies[j].idx
          /\ pc = "rebuild" =>
                \A n \in 1..Len(rules) :
                    Sum(searched[n].ret) > 0 <=>
                        \E j \in 1..Len(applies) : applies[j].idx = n
          /\ calls.rebuild = Len(iterations)
          /\ calls.rebuild = IF pc \in {"search", "apply", "rebuild"}
                             THEN calls.pre - 1 ELSE calls.post +
                                  (IF pc = "post_step" THEN 1 ELSE 0))
    /\ [][calls'.rebuild # calls.rebuild =>
            \/ runs' = runs + 1
            \/ /\ pc = "rebuild"
               /\ calls'.rebuild = calls.rebuild + 1
               /\ calls'.apply = calls.apply
               /\ Len(iterations') = Len(iterations) + 1
               /\ pc' = "post_step"]_vars

\* both rules of a step were applied, each with its own, different matches
C15_Witness ==
    /\ pc = "post_step"
    /\ rules = <<"a", "b">>
    /\ Len(applies) = 2
    /\ applies[1].ms # applies[2].ms
    /\ applies[1].ms = searched[1].ret

\* the names with an entry in the applied mapping of the step the searched
\* and applies logs belong to
EntryNames ==
    IF pc = "post_step" THEN DOMAIN Last(iterations).applied ELSE DOMAIN applied

\* a rule of the same name, earlier in the list, was applied in this step
AppliedEarlier(n) ==
    \E j \in 1..Len(applies) :
        /\ applies[j].idx < n
        /\ applies[j].name = searched[n].name
        /\ applies[j].count > 0

\* search_rewrite called for a banned rule: no matches, no search, stats
\* and counter untouched; and only a banned rule is treated so
C16_Frame ==
    [][Len(searched') = Len(searched) + 1 =>
        LET o == Last(searched')
            r == rules[k]
            banned == r \in DOMAIN stats /\ i < stats[r].banned_until
        IN  /\ o.name = r
            /\ banned <=> o.outcome = "skipped"
            /\ banned =>
                  /\ stats' = stats
                  /\ i' = i
                  /\ Last(matches') = <<>>
                  /\ calls'.real = calls.real
                  /\ calls'.search = calls.search + 1]_vars

\* C16 (as stated): a call of search_rewrite for a banned rule returns no
\* matches, runs no search and changes no stats and not the counter; so the
\* rule has no entry in that step's applied mapping.
C16_BannedSkipNoEntry ==
    /\ C16_Frame
    /\ [](\A n \in 1..Len(searched) :
            searched[n].outcome = "skipped" => searched[n].name \notin EntryNames)

\* C16 (amended): a call of search_rewrite for a banned rule returns no
\* matches, runs no search and changes no stats and not the counter; the
\* rule is not applied, and its name has no entry in that step's applied
\* mapping unless a rule of the same name earlier in the list was applied
\* in that step.
C16_BannedSkip ==
    /\ C16_Frame
    /\ [](/\ \A j \in 1..Len(applies) :
                searched[applies[j].idx].outcome # "skipped"
          /\ \A n \in 1..Len(searched) :
                (searched[n].outcome = "skipped" /\ ~AppliedEarlier(n)) =>
                    searched[n].name \notin EntryNames)

\* three rules of one name: the first applied, the second banned the name,
\* the third was skipped, and the name has an entry
C16_Witness ==
    /\ pc = "post_step"
    /\ Len(searched) = 3
    /\ searched[2].outcome = "banned"
    /\ searched[3].outcome = "skipped"
    /\ searched[3].name \in DOMAIN Last(iterations).applied
    /\ stats[searched[3].name].times_banned = 1

\* search_rewrite called for a seen, unbanned rule: the total is compared
\* with initial_match_limit << times_banned
C17_Frame ==
    [][Len(searched') = Len(searched) + 1 =>
        LET o == Last(searched')
            r == rules[k]
        IN  (r \in DOMAIN stats /\ ~(i < stats[r].banned_until)) =>
            LET old == stats[r]
                new == stats'[r]
                thr == initial_match_limit * Pow2(old.times_banned)
            IN  /\ o.outcome \in {"banned", "applied"}
                /\ calls'.real = calls.real + 1
                /\ (o.total > thr) <=> o.outcome = "banned"
                /\ o.outcome = "banned" =>
                      /\ Last(matches') = <<>>
                      /\ new.times_applied = old.times_applied
                      /\ new.times_banned = old.times_banned + 1
                      /\ new.banned_until = i + ban_length * Pow2(old.times_banned)
                /\ o.outcome = "applied" =>
                      /\ Last(matches') = o.found
                      /\ new.times_applied = old.times_applied + 1
                      /\ new.times_banned = old.times_banned
                      /\ new.banned_until = old.banned_until
                /\ \A q \in DOMAIN stats : q # r => stats'[q] = stats[q]]_vars

\* C17 (as stated): a seen, unbanned rule whose total exceeds its threshold
\* is banned anew and gets no matches, its times_applied is unchanged and it
\* has no entry in the applied mapping of the step; otherwise times_applied
\* grows by one, times_banned and banned_until are unchanged and the
\* matches are returned as found.
C17_ThresholdNoEntry ==
    /\ C17_Frame
    /\ [](\A n \in 1..Len(searched) :
            searched[n].outcome = "banned" => searched[n].name \notin EntryNames)

\* C17 (amended): as stated, except that the name of the newly banned rule
\* has no entry in the applied mapping of the step unless a rule of the
\* same name earlier in the list was applied in that step.
C17_ThresholdBranch ==
    /\ C17_Frame
    /\ [](/\ \A j \in 1..Len(applies) :
                searched[applies[j].idx].outcome # "banned"
          /\ \A n \in 1..Len(searched) :
                (searched[n].outcome = "banned" /\ ~AppliedEarlier(n)) =>
                    searched[n].name \notin EntryNames)

\* two rules of one name: the first was within its threshold and applied,
\* the second went over it and banned the name
C17_Witness ==
    /\ pc = "post_step"
    /\ Len(searched) = 2
    /\ searched[1].outcome = "applied"
    /\ searched[2].outcome = "banned"
    /\ searched[2].name = searched[1].name
    /\ searched[2].name \in DOMAIN Last(iterations).applied

PostStepAt(at) ==
    (pc = "post_step" /\ pc' # "post_step") =>
        LET sat == /\ DOMAIN Last(iterations).applied = {}
                   /\ \A r \in DOMAIN stats : ~(stats[r].banned_until > at)
        IN  /\ i' = i + 1
            /\ calls'.post = calls.post + 1
            /\ stats' = stats
            /\ hook_ret' = Saturated <=> sat
            /\ sat => (pc' = "done" /\ stop_reason' = Saturated)
            /\ ~sat => (pc' = "pre_step" /\ hook_ret' = Ok)

\* C19 (as stated): post_step increments the counter and then returns
\* Saturated iff the applied mapping of the step is empty and no rule has
\* banned_until greater than the incremented counter.
C19_AfterIncrement == [][PostStepAt(i')]_vars

\* C19 (amended): post_step returns Saturated iff the applied mapping of
\* the step is empty and no rule has banned_until greater than the counter
\* as it was before the increment; the counter is incremented either way.
C19_BeforeIncrement == [][PostStepAt(i)]_vars

\* a step applied nothing while a ban ended exactly at the next iteration:
\* post_step did not stop the run
C19_Witness ==
    /\ pc = "pre_step"
    /\ calls.post >= 1
    /\ DOMAIN Last(iterations).applied = {}
    /\ \E r \in DOMAIN stats : stats[r].banned_until = i
    /\ hook_ret = Ok

Occurrences(name) == {n \in 1..Len(rules) : rules[n] = name}

\* the apply_rewrite calls of the step, so far, that were made for this name
\* and returned a positive count
SuccessfulApplies(name) ==
    {j \in 1..Len(applies) : applies[j].name = name /\ applies[j].count > 0}

\* C21 (as stated): no entry of an applied mapping ever exceeds 1, for any
\* rule list.
C21_AtMostOne ==
    /\ \A r \in DOMAIN applied : applied[r] <= 1
    /\ \A n \in 1..Len(iterations) :
          \A r \in DOMAIN iterations[n].applied : iterations[n].applied[r] <= 1

\* C21 (amended): an entry of an applied mapping is the number of rules of
\* that name in the list whose apply_rewrite call in the step returned a
\* positive count: at least 1, at most the number of rules of that name,
\* hence 1 when the names of the list are distinct.
C21_CountsApplies ==
    /\ LET ap == IF pc = "post_step" THEN Last(iterations).applied ELSE applied
       IN  /\ DOMAIN ap = {r \in Names : SuccessfulApplies(r) # {}}
           /\ \A r \in DOMAIN ap : ap[r] = Cardinality(SuccessfulApplies(r))
    /\ \A r \in Names : Cardinality(SuccessfulApplies(r)) <= Cardinality(Occurrences(r))
    /\ \A n \in 1..Len(iterations) :
          \A r \in DOMAIN iterations[n].applied :
              /\ iterations[n].applied[r] >= 1
              /\ iterations[n].applied[r] <= Cardinality(Occurrences(r))

\* two rules of one name were both applied in a step: the record has the
\* entry 2
C21_Witness ==
    /\ pc = "post_step"
    /\ rules = <<"a", "a">>
    /\ Last(iterations).applied = ("a" :> 2)
    /\ Len(applies) = 2

\* C22: run and run_expr never reset the counter or the stats: a run starts
\* with both as the last one left them and the counter moves only with the
\* post_step calls, one for one. So on a fresh instance the counter at
\* pre_step is the number of records collected, and a run started with the
\* counter at or over iter_limit returns no record and IterationLimit.
C22_NeverReset ==
    /\ [][/\ runs' = runs + 1 => (i' = i /\ stats' = stats /\ calls'.post = 0)
          /\ runs' = runs =>
                /\ i' - i = calls'.post - calls.post
                /\ i' - i \in {0, 1}
                /\ DOMAIN stats \subseteq DOMAIN stats'
                /\ stats' # stats => pc = "search"]_vars
    /\ [](/\ runs = 1 => i = calls.post
          /\ (runs = 1 /\ pc = "pre_step") => i = Len(iterations)
          /\ (runs >= 1 /\ i - calls.post >= iter_limit) =>
                /\ pc \in {"pre_step", "done"}
                /\ calls.post = 0
                /\ iterations = <<>>
                /\ pc = "done" =>
                      /\ report.iterations = <<>>
                      /\ stop_reason = IterationLimit(i)
                      /\ calls.pre = 1
                      /\ calls.search = 0)

\* a second run on an instance that had used up its iterations: no record,
\* IterationLimit, counter and stats as the first run left them
C22_Witness ==
    /\ pc = "done"
    /\ runs = 2
    /\ i >= 1
    /\ i >= iter_limit
    /\ calls.post = 0
    /\ Len(rules) >= 1
    /\ report.iterations = <<>>
    /\ stop_reason.tag = "IterationLimit"
    /\ \E r \in DOMAIN stats : stats[r].times_banned >= 1

\* the run has stopped with Saturated; the logs are those of its last step
StoppedSaturated == pc = "done" /\ stop_reason = Saturated

\* after Saturated: in the last step every rule of the list was really
\* searched and none was banned, every rule that got matches was applied
\* with a count of 0, and no ban of any rule reaches beyond the step's
\* iteration index
C23_RealSearches ==
    StoppedSaturated =>
        /\ Len(searched) = Len(rules)
        /\ \A n \in 1..Len(searched) :
              /\ searched[n].outcome \in {"first", "applied"}
              /\ searched[n].at = i - 1
              /\ Sum(searched[n].ret) > 0 =>
                    \E j \in 1..Len(applies) : applies[j].idx = n
        /\ \A j \in 1..Len(applies) : applies[j].count = 0
        /\ \A r \in DOMAIN stats : stats[r].banned_until <= i - 1

\* after Saturated: in the last step no rule found more matches than its
\* threshold initial_match_limit << times_banned
C23_WithinThreshold ==
    StoppedSaturated =>
        \A n \in 1..Len(searched) :
            searched[n].total <= searched[n].limit * Pow2(searched[n].tb)

\* C23: when a run stops with Saturated after the step at index i, in that
\* step every rule was really searched (none skipped as banned), none
\* exceeded its threshold, every rule with a non-zero match total was
\* applied and returned 0, and every banned_until is <= i.
C23_SaturatedAfterCleanStep == C23_RealSearches /\ C23_WithinThreshold

====
